---- MODULE Spec2Model ----
(***************************************************************************)
(* Per-station orchestration layer of the sugarcane dump-station monitor:  *)
(* the unload-cycle state machine (StateManager), the station processor    *)
(* (DumpProcessor), the repository (DatabaseManager), the shared inference *)
(* lock of the two engines and the stream worker's frame mailbox.          *)
(*                                                                         *)
(* Time is counted in whole seconds.  The state machine only ever reads    *)
(* time.time() - last_state_change, so each StateManager carries that      *)
(* difference (since_change), saturated at MaxElapsed, which lies above    *)
(* every threshold the code compares it with.                              *)
(***************************************************************************)
EXTENDS Integers, Sequences, FiniteSets, TLC

(* ------------------------------ bounds --------------------------------- *)
MaxSessions == 1
MaxElapsed == 7

\* station threads contending for the inference lock
NumThreads == 3

\* frames a camera source delivers
MaxFrames == 4
MaxMsgs == 2
MaxQueue == 4
MaxStarts == 3
MaxJobs == 3

(* ------------------------- program constants --------------------------- *)
debounce_time == 2
DwellTime == 6
CanePctMin == 90
SnapInterval == 10
LiftMaxY == 100
LiftingY == 250
TrimAbove == 2
CAM_RECONNECT_SEC == 3
CAM_OPEN_TIMEOUT_SEC == 10

\* Stations share nothing but the inference lock and the repository, whose rows
\* are keyed by fresh uuids: the station processor is modelled for one station.
Stations == {1}
None == "None"

\* str(uuid.uuid4()): the n-th fresh uuid
uuid4(n) == "uuid-" \o ToString(n)
Uuids == {uuid4(n) : n \in 1..MaxSessions}

\* Python truthiness of a session handle: None and "" are falsy
Truthy(u) == u # None /\ u # ""

EMPTY_IDLE == "EMPTY_IDLE"
TRUCK_IN == "TRUCK_IN"
DUMP_LIFT == "DUMP_LIFT"
DUMPING_ACTIVE == "DUMPING_ACTIVE"
DUMPING_EMPTY == "DUMPING_EMPTY"
DUMP_DOWN == "DUMP_DOWN"
TRUCK_OUT == "TRUCK_OUT"
EMPTY_RESET == "EMPTY_RESET"

DumpState ==
  {EMPTY_IDLE, TRUCK_IN, DUMP_LIFT, DUMPING_ACTIVE, DUMPING_EMPTY, DUMP_DOWN,
   TRUCK_OUT, EMPTY_RESET}

ImageTypes == {"IMAGE_1", "IMAGE_2", "IMAGE_3", "IMAGE_4"}

VARIABLES
  sm,             \* sm[d]: the station's StateManager (state, since_change, captured_images)
  session_uuid,   \* DumpProcessor.session_uuid: None, "" or a uuid
  session_images, \* DumpProcessor.session_images: slot -> filled?
  plate_number,   \* DumpProcessor.plate_number
  db_session,     \* table dump_session: a function from the uuids inserted to their rows
  db_images,      \* table dump_images: the <<session_uuid, image_type>> of its rows
  next_uuid,      \* the number of the next fresh uuid4
  last,           \* what the latest step did: the station that ticked, its repository
                  \* calls in order, whether it ended in an exception caught by run()
  signals,        \* the (front, top) pair of the latest call of update
  script          \* how many ticks of the end-to-end scenario have been fed

stationVars ==
  <<sm, session_uuid, session_images, plate_number, db_session, db_images,
    next_uuid, last, signals, script>>

VARIABLES
  pc,             \* pc[t]: where station thread t stands in its analysis cycle
  held            \* held[l]: the threads holding lock l (none or one)

lockVars == <<pc, held>>

VARIABLES
  latest_frame,   \* CameraWorker.latest_frame: the frames the mailbox holds
  lock,           \* CameraWorker.lock: the threads holding it (none or one)
  reader_active,  \* CameraWorker.reader_active
  cap,            \* CameraWorker.cap: is it opened, the number of its next frame,
                  \* the number of the first frame of this connection
  worker,         \* the thread of CameraWorker.run: its position, its local frame
  reader,         \* the thread of _reader_loop: its position, its local frame
  writes,         \* the frames stored into latest_frame so far, in order
  since_fail      \* the seconds since the worker's latest failure, up to the backoff

camVars ==
  <<latest_frame, lock, reader_active, cap, worker, reader, writes, since_fail>>

VARIABLES
  ai_enabled,     \* DumpProcessor.ai_enabled
  since_snap,     \* time.time() - last_snap_time, saturated above SnapInterval
  running,        \* DumpProcessor.running
  alive,          \* the thread of DumpProcessor.run has not returned
  in_tick         \* the thread of DumpProcessor.run is inside the body of its loop

runVars == <<ai_enabled, since_snap, running, alive, in_tick>>

VARIABLES
  frame_q,        \* CameraManager.frame_q: the messages the workers put, oldest first
  ui_q,           \* CameraManager.ui_q: the messages the pump has put, oldest first
  pump,           \* the thread of _pump_loop: its position, its local msg
  publisher       \* publisher[ch]: where the worker of channel ch stands in its
                  \* publishing, the timestamp of its next message

mgrVars == <<frame_q, ui_q, pump, publisher>>

VARIABLES
  stop_event,     \* CameraManager.stop_event: is it set
  threads,        \* the worker and pump threads of the manager that are running
  started         \* the number of calls of CameraManager.start() so far

restartVars == <<stop_event, threads, started>>

VARIABLES
  daily_is_running,  \* Orchestrator.daily_is_running
  agent_is_running,  \* Orchestrator.agent_is_running
  jobs               \* the job threads of the Orchestrator, in the order started

orchVars == <<daily_is_running, agent_is_running, jobs>>

vars ==
  <<stationVars, lockVars, camVars, runVars, mgrVars, restartVars, orchVars>>

\* what the steps of one part leave alone
notStation == <<lockVars, camVars, mgrVars, restartVars, orchVars>>
notLock == <<stationVars, camVars, runVars, mgrVars, restartVars, orchVars>>
notCam == <<stationVars, lockVars, runVars, mgrVars, restartVars, orchVars>>
notMgr == <<stationVars, lockVars, camVars, runVars, restartVars, orchVars>>
notRestart == <<stationVars, lockVars, camVars, runVars, mgrVars, orchVars>>
notOrch == <<stationVars, lockVars, camVars, runVars, mgrVars, restartVars>>

(* ------------------------------ signals -------------------------------- *)
\* dict.get(key) reading an absent key as true
GetAbsentAsTrue(m, k, default) == IF k \in DOMAIN m THEN m[k] ELSE TRUE

\* dict.get(key): an absent key reads as the default
Get(m, k, default) == IF k \in DOMAIN m THEN m[k] ELSE default

FrontKeys == {"truck_detected", "lifting", "lift_max", "lowering"}
PctValues == {50, 95}
FrontInputs == [FrontKeys -> BOOLEAN]
TopInputs ==
  [cane_detected : BOOLEAN, cane_percentage : PctValues, dumping : BOOLEAN]
TopKeys == {"cane_detected", "cane_percentage", "dumping"}

\* the map m with the keys outside K absent
Restrict(m, K) == [k \in K |-> m[k]]

\* the signal maps that lack at least one field
PartialFront ==
  {Restrict(front, K) : front \in FrontInputs, K \in (SUBSET FrontKeys) \ {FrontKeys}}
PartialTop ==
  {Restrict(top, K) : top \in TopInputs, K \in (SUBSET TopKeys) \ {TopKeys}}

(* --------------------------- StateManager ------------------------------ *)
NewStateManager ==
  [state |-> EMPTY_IDLE, since_change |-> 0, captured_images |-> <<>>]

\* transition_to without the reset of the capture list
transition_toKeep(m, new_state) ==
  [state |-> new_state, since_change |-> 0, captured_images |-> m.captured_images]

transition_to(m, new_state) ==
  [state |-> new_state,
   since_change |-> 0,
   captured_images |->
     IF new_state = EMPTY_IDLE THEN <<>> ELSE m.captured_images]

Debounced(m) == m.since_change < debounce_time

\* NextState with the DUMPING_ACTIVE edge taken on the top signal alone
NextStateSingleSensor(s, front, top) ==
  LET truck == Get(front, "truck_detected", FALSE)
      lifting == Get(front, "lifting", FALSE)
      lift_max == Get(front, "lift_max", FALSE)
      lowering == Get(front, "lowering", FALSE)
      cane == Get(top, "cane_detected", FALSE)
      pct == Get(top, "cane_percentage", 0)
      dumping == Get(top, "dumping", FALSE)
  IN CASE s = EMPTY_IDLE -> IF truck /\ cane THEN TRUCK_IN ELSE s
       [] s = TRUCK_IN -> IF lifting /\ pct >= CanePctMin THEN DUMP_LIFT ELSE s
       [] s = DUMP_LIFT -> IF lift_max /\ dumping THEN DUMPING_ACTIVE ELSE s
       [] s = DUMPING_ACTIVE -> IF ~cane THEN DUMPING_EMPTY ELSE s
       [] s = DUMPING_EMPTY -> IF lowering /\ ~cane THEN DUMP_DOWN ELSE s
       [] s = DUMP_DOWN -> IF truck /\ ~cane THEN TRUCK_OUT ELSE s
       [] s = TRUCK_OUT -> IF ~truck /\ ~cane THEN EMPTY_RESET ELSE s
       [] s = EMPTY_RESET -> EMPTY_IDLE

\* the edge the transition table offers in state s under (front, top), or s itself
NextState(s, front, top) ==
  LET truck == Get(front, "truck_detected", FALSE)
      lifting == Get(front, "lifting", FALSE)
      lift_max == Get(front, "lift_max", FALSE)
      lowering == Get(front, "lowering", FALSE)
      cane == Get(top, "cane_detected", FALSE)
      pct == Get(top, "cane_percentage", 0)
      dumping == Get(top, "dumping", FALSE)
  IN CASE s = EMPTY_IDLE -> IF truck /\ cane THEN TRUCK_IN ELSE s
       [] s = TRUCK_IN -> IF lifting /\ pct >= CanePctMin THEN DUMP_LIFT ELSE s
       [] s = DUMP_LIFT -> IF lift_max /\ dumping THEN DUMPING_ACTIVE ELSE s
       [] s = DUMPING_ACTIVE -> IF lift_max /\ ~cane THEN DUMPING_EMPTY ELSE s
       [] s = DUMPING_EMPTY -> IF lowering /\ ~cane THEN DUMP_DOWN ELSE s
       [] s = DUMP_DOWN -> IF truck /\ ~cane THEN TRUCK_OUT ELSE s
       [] s = TRUCK_OUT -> IF ~truck /\ ~cane THEN EMPTY_RESET ELSE s
       [] s = EMPTY_RESET -> EMPTY_IDLE

\* update without the debounce check
updateNoDebounce(m, front, top) ==
  LET t == NextState(m.state, front, top)
  IN IF t = m.state THEN m ELSE transition_to(m, t)

\* StateManager.update: the StateManager after the call
update(m, front, top) ==
  IF Debounced(m) THEN m
  ELSE LET t == NextState(m.state, front, top)
       IN IF t = m.state THEN m ELSE transition_to(m, t)

\* StateManager.update: the value the call returns
Returned(m, front, top) ==
  IF Debounced(m) THEN FALSE ELSE NextState(m.state, front, top) # m.state

Contains(seq, x) == \E i \in 1..Len(seq) : seq[i] = x

\* get_capture_trigger without the IMAGE_2 requirement of DUMP_LIFT
get_capture_triggerNoLift(m) ==
  CASE m.state = TRUCK_IN /\ ~Contains(m.captured_images, "IMAGE_1") -> "IMAGE_1"
    [] m.state = DUMPING_ACTIVE /\ ~Contains(m.captured_images, "IMAGE_3") -> "IMAGE_3"
    [] m.state = DUMPING_ACTIVE /\ Contains(m.captured_images, "IMAGE_3")
         /\ ~Contains(m.captured_images, "IMAGE_4")
         /\ m.since_change > DwellTime -> "IMAGE_4"
    [] OTHER -> None

get_capture_trigger(m) ==
  CASE m.state = TRUCK_IN /\ ~Contains(m.captured_images, "IMAGE_1") -> "IMAGE_1"
    [] m.state = DUMP_LIFT /\ ~Contains(m.captured_images, "IMAGE_2") -> "IMAGE_2"
    [] m.state = DUMPING_ACTIVE /\ ~Contains(m.captured_images, "IMAGE_3") -> "IMAGE_3"
    [] m.state = DUMPING_ACTIVE /\ Contains(m.captured_images, "IMAGE_3")
         /\ ~Contains(m.captured_images, "IMAGE_4")
         /\ m.since_change > DwellTime -> "IMAGE_4"
    [] OTHER -> None

mark_captured(m, image_type) ==
  [m EXCEPT !.captured_images = Append(@, image_type)]

(* -------------------------- DatabaseManager ---------------------------- *)
\* Each repository method catches its own exceptions: a failed write leaves
\* the table as it was and the method returns normally ("" for create_session).
Call(op, uuid, arg) == [op |-> op, uuid |-> uuid, arg |-> arg]

NewRow(d) ==
  [dump_id |-> d, status |-> "INCOMPLETE", end_time |-> None,
   plate_number |-> None]

\* create_session: <<the uuid returned, the table after the call>>
create_session(dbs, n, d, ok) ==
  IF ok
  THEN <<uuid4(n), [u \in DOMAIN dbs \cup {uuid4(n)} |->
                     IF u = uuid4(n) THEN NewRow(d) ELSE dbs[u]]>>
  ELSE <<"", dbs>>

\* update_session(uuid, **fields): fields is a function from column names to values
update_session(dbs, uuid, fields, ok) ==
  IF ok /\ uuid \in DOMAIN dbs
  THEN [dbs EXCEPT ![uuid] =
         [c \in DOMAIN @ |-> IF c \in DOMAIN fields THEN fields[c] ELSE @[c]]]
  ELSE dbs

\* log_image: the rows are kept as a set, so a second row of the same session
\* and type shows only in the call that inserts it
log_image(dbi, uuid, image_type) == dbi \cup {<<uuid, image_type>>}

(* --------------------------- DumpProcessor ----------------------------- *)
\* What a tick cannot control: whether the writes of create_session and
\* update_session succeed, whether the merge/imwrite of finalization and the
\* imwrite of a capture raise, and the text the OCR pass reads (None for no text).
PlateTexts == {None, "12-3456"}
Faults ==
  [create_ok : BOOLEAN, update_ok : BOOLEAN,
   merge_ok : BOOLEAN, save_ok : BOOLEAN, ocr : PlateTexts]
NoFault ==
  [create_ok |-> TRUE, update_ok |-> TRUE,
   merge_ok |-> TRUE, save_ok |-> TRUE, ocr |-> "12-3456"]

EmptyImages == [t \in ImageTypes |-> FALSE]

\* The part of the program a tick of station d reads and writes.
World(d) ==
  [m |-> sm[d], uuid |-> session_uuid[d], images |-> session_images[d],
   plate |-> plate_number[d], dbs |-> db_session, dbi |-> db_images,
   nu |-> next_uuid, calls |-> <<>>, raised |-> FALSE]

\* _process_cycle lines 237-238
LogTransition(w) ==
  IF Truthy(w.uuid)
  THEN [w EXCEPT !.calls = Append(@, Call("log_state_transition", w.uuid, <<"PREV", w.m.state>>))]
  ELSE w

\* StartSession without the guard on the handle
StartSessionUnguarded(w, d, f) ==
  IF w.m.state = TRUCK_IN
  THEN LET r == create_session(w.dbs, w.nu, d, f.create_ok)
       IN [w EXCEPT !.uuid = r[1], !.dbs = r[2],
                    !.nu = IF f.create_ok THEN @ + 1 ELSE @,
                    !.calls = Append(@, Call("create_session", r[1], None)),
                    !.images = EmptyImages,
                    !.plate = "UNKNOWN"]
  ELSE w

\* _process_cycle lines 241-245
StartSession(w, d, f) ==
  IF w.m.state = TRUCK_IN /\ ~Truthy(w.uuid)
  THEN LET r == create_session(w.dbs, w.nu, d, f.create_ok)
       IN [w EXCEPT !.uuid = r[1], !.dbs = r[2],
                    !.nu = IF f.create_ok THEN @ + 1 ELSE @,
                    !.calls = Append(@, Call("create_session", r[1], None)),
                    !.images = EmptyImages,
                    !.plate = "UNKNOWN"]
  ELSE w

\* _finalize_session lines 307-308
\* FinalStatus with any() for all()
FinalStatusAny(images) ==
  IF \E t \in ImageTypes : images[t] THEN "COMPLETE" ELSE "INCOMPLETE"

FinalStatus(images) ==
  IF \A t \in ImageTypes : images[t] THEN "COMPLETE" ELSE "INCOMPLETE"

\* _finalize_session: an exception of the merge or of the imwrite leaves before
\* update_session is called
_finalize_session(w, f) ==
  IF ~f.merge_ok
  THEN [w EXCEPT !.raised = TRUE]
  ELSE LET status == FinalStatus(w.images)
           fields == [end_time |-> "now", status |-> status]
       IN [w EXCEPT !.dbs = update_session(@, w.uuid, fields, f.update_ok),
                    !.calls = Append(@, Call("update_session", w.uuid, status))]

\* _process_cycle lines 248-250: the handle is cleared after _finalize_session returns
EndSession(w, f) ==
  IF w.m.state = EMPTY_RESET /\ Truthy(w.uuid)
  THEN LET w1 == _finalize_session(w, f)
       IN IF w1.raised THEN w1 ELSE [w1 EXCEPT !.uuid = None]
  ELSE w

\* LPREngine.detect(frame, skip_ocr) called by caller: the YOLO pass and, for
\* a plate found with skip_ocr false, the OCR pass (_ocr_plate)
detect(calls, found, skip_ocr, caller) ==
  LET c1 == Append(calls, Call("yolo", None, caller))
  IN IF found /\ ~skip_ocr THEN Append(c1, Call("readtext", None, caller)) ELSE c1

\* _perform_capture; f.ocr is the text of the plate its detect finds (None
\* for no plate)
_perform_capture(w, trigger, f) ==
  LET w0 == [w EXCEPT !.calls = Append(@, Call("_perform_capture", w.uuid, trigger))]
      w1 == IF trigger = "IMAGE_1"
            THEN LET wd == [w0 EXCEPT !.calls = detect(@, f.ocr # None, FALSE,
                                                       "_perform_capture")]
                 IN IF f.ocr # None
                    THEN [wd EXCEPT !.plate = f.ocr,
                                    !.dbs = update_session(@, w.uuid,
                                              [plate_number |-> f.ocr], f.update_ok),
                                    !.calls = Append(@, Call("update_plate", w.uuid, f.ocr))]
                    ELSE wd
            ELSE w0
  IN IF ~f.save_ok
     THEN [w1 EXCEPT !.raised = TRUE]
     ELSE [w1 EXCEPT !.dbi = log_image(@, w.uuid, trigger),
                     !.calls = Append(@, Call("log_image", w.uuid, trigger)),
                     !.images = [@ EXCEPT ![trigger] = TRUE],
                     !.m = mark_captured(@, trigger)]

\* _process_cycle lines 252-255
Capture(w, f) ==
  LET trigger == get_capture_trigger(w.m)
  IN IF trigger # None /\ Truthy(w.uuid) THEN _perform_capture(w, trigger, f) ELSE w

\* _process_cycle lines 235-255: what follows the call of update, which left
\* the StateManager as m1
AfterUpdate(w, m1, d, f) ==
  LET w1 == [w EXCEPT !.m = m1]
  IN IF m1.state = w.m.state
     THEN Capture(w1, f)
     ELSE LET w2 == EndSession(StartSession(LogTransition(w1), d, f), f)
          IN IF w2.raised THEN w2 ELSE Capture(w2, f)

\* _process_cycle lines 233-255, given the signals
FsmAndCapture(w, d, front, top, f) ==
  AfterUpdate(w, update(w.m, front, top), d, f)

\* The faults that can show in a tick whose fault-free run is w0: a flag is
\* free only when the call it belongs to is made.
Made(w0, op) == \E i \in 1..Len(w0.calls) : w0.calls[i].op = op
FaultsFor(w0) ==
  {f \in Faults :
     /\ (~Made(w0, "create_session") => f.create_ok)
     /\ (~Made(w0, "update_session") => f.merge_ok)
     /\ (~Made(w0, "log_image") => f.save_ok)
     /\ (~Made(w0, "update_plate") => f.ocr = NoFault.ocr)
     /\ (~Made(w0, "update_session") /\ ~Made(w0, "update_plate") => f.update_ok)}

\* at most most uuids are drawn
WithinBounds(w, most) == w.nu <= most + 1

\* The tick of station d leaves the program as w says.
Commit(d, w, most) ==
  /\ WithinBounds(w, most)
  /\ sm' = [sm EXCEPT ![d] = w.m]
  /\ session_uuid' = [session_uuid EXCEPT ![d] = w.uuid]
  /\ session_images' = [session_images EXCEPT ![d] = w.images]
  /\ plate_number' = [plate_number EXCEPT ![d] = w.plate]
  /\ db_session' = w.dbs
  /\ db_images' = w.dbi
  /\ next_uuid' = w.nu
  /\ last' = [dump |-> d, calls |-> w.calls, raised |-> w.raised]
  /\ UNCHANGED notStation

\* no station ticked in the latest step
NoTick == [dump |-> 0, calls |-> <<>>, raised |-> FALSE]

(* ------------------ DumpProcessor: the whole tick ---------------------- *)
\* lpr_engine.detect returns None or a result with the bbox of the plate; only
\* the y1 of the bbox is read. A result or None is the sequence of the y1.
NoPlate == <<>>
LprResults == {NoPlate, <<50>>, <<150>>, <<300>>}

\* _process_cycle lines 219-231
front_data(lpr_res) ==
  [truck_detected |-> lpr_res # NoPlate,
   lifting |-> lpr_res # NoPlate /\ ~(lpr_res[1] < LiftMaxY) /\ lpr_res[1] < LiftingY,
   lift_max |-> lpr_res # NoPlate /\ lpr_res[1] < LiftMaxY,
   lowering |-> FALSE]

\* ClassificationEngine.analyze: no result of the model; boxes, with the cane
\* share p of the frame; class probabilities with cane on top at confidence p
AreaPcts == {0} \cup PctValues
analyze ==
  {[cane_detected |-> FALSE, cane_percentage |-> 0, dumping |-> FALSE]}
  \cup {[cane_detected |-> TRUE, cane_percentage |-> p, dumping |-> 10 < p /\ p < 90] :
          p \in AreaPcts}
  \cup {[cane_detected |-> TRUE, cane_percentage |-> p, dumping |-> TRUE] : p \in PctValues}

\* What a tick meets: whether cap.read() raises, whether it delivers a frame
\* of the front and of the top channel, whether an engine raises, and what
\* the engines return.
CalmTick ==
  [read_ok |-> TRUE, front |-> TRUE, top |-> TRUE, lpr_ok |-> TRUE, cls_ok |-> TRUE,
   lpr |-> NoPlate, cls |-> [cane_detected |-> FALSE, cane_percentage |-> 0, dumping |-> FALSE]]
TickInputs ==
  {[CalmTick EXCEPT !.read_ok = FALSE], [CalmTick EXCEPT !.lpr_ok = FALSE]}
  \cup {[CalmTick EXCEPT !.front = a, !.top = b] : a, b \in BOOLEAN}
  \cup {[CalmTick EXCEPT !.lpr = l, !.cls_ok = FALSE] : l \in LprResults}
  \cup {[CalmTick EXCEPT !.lpr = l, !.cls = c] : l \in LprResults, c \in analyze}

\* a snapshot on every tick
FallbackSnapAlways(w, due) ==
  [w EXCEPT !.calls = @ \o <<Call("_save_snap_image", None, "LPR"),
                             Call("_save_snap_image", None, "TopView")>>]

\* _process_cycle lines 176-186: AI off, a snapshot of both channels when due
FallbackSnap(w, due) ==
  IF due
  THEN [w EXCEPT !.calls = @ \o <<Call("_save_snap_image", None, "LPR"),
                                  Call("_save_snap_image", None, "TopView")>>]
  ELSE w

\* _process_cycle lines 193-204: the two engine calls of every tick
Analysis(w, env) ==
  LET w1 == [w EXCEPT !.calls = detect(@, env.lpr_ok /\ env.lpr # NoPlate, FALSE,
                                       "_process_cycle")]
      w2 == [w1 EXCEPT !.plate = IF env.lpr # NoPlate THEN NoFault.ocr ELSE "-",
                       !.calls = Append(@, Call("cls_model", None, "_process_cycle"))]
  IN IF ~env.lpr_ok THEN [w1 EXCEPT !.raised = TRUE]
     ELSE IF ~env.cls_ok THEN [w2 EXCEPT !.raised = TRUE]
     ELSE w2

\* a tick that goes on with the frame of one channel
AnyFrame(env) == env.front \/ env.top

\* _process_cycle lines 160-170: the frames of both channels are there
BothFrames(env) == env.front /\ env.top

\* one pass of the loop of run(): the frames are read, _process_cycle runs
_process_cycle(w, d, env, f, ai, due) ==
  LET w1 == [w EXCEPT !.calls = Append(@, Call("cap.read", None, <<env.front, env.top>>))]
  IN IF ~env.read_ok THEN [w1 EXCEPT !.raised = TRUE]
     ELSE IF ~BothFrames(env) THEN w1
     ELSE IF ~ai THEN FallbackSnap(w1, due)
     ELSE LET w2 == Analysis(w1, env)
          IN IF w2.raised THEN w2
             ELSE FsmAndCapture([w2 EXCEPT !.calls = Append(@, Call("update", None, None))],
                                d, front_data(env.lpr), env.cls, f)

\* run() returning on an exception of the tick
LoopEnds(raised) == ~raised

\* run(): except Exception: the error is logged, the loop sleeps and goes on
LoopSurvives(raised) == TRUE

InitRun ==
  /\ ai_enabled = [d \in Stations |-> TRUE]
  /\ since_snap = [d \in Stations |-> SnapInterval + 1]
  /\ running = [d \in Stations |-> TRUE]
  /\ alive = [d \in Stations |-> TRUE]
  /\ in_tick = [d \in Stations |-> FALSE]

\* the ticks in which nothing raises
QuietInputs == {env \in TickInputs : env.read_ok /\ env.lpr_ok /\ env.cls_ok}

\* a pass of the loop of station d, on one of the inputs under one of the faults
RunTick(d, inputs, faults) ==
  /\ running[d] /\ alive[d]
  /\ UNCHANGED in_tick
  /\ \E env \in inputs :
       LET due == since_snap[d] > SnapInterval
       IN \E f \in FaultsFor(_process_cycle(World(d), d, env, NoFault, ai_enabled[d], due))
                     \cap faults :
            LET w == _process_cycle(World(d), d, env, f, ai_enabled[d], due)
            IN /\ Commit(d, w, MaxSessions)
               /\ since_snap' = [since_snap EXCEPT
                                   ![d] = IF Made(w, "_save_snap_image") THEN 0 ELSE @]
               /\ alive' = [alive EXCEPT ![d] = LoopSurvives(w.raised)]
  /\ UNCHANGED <<signals, script, ai_enabled, running>>

\* a loop that goes on whatever the flag says
LoopForever(flag) == TRUE

\* run(): while self.running
LoopCondition(flag) == flag

\* run(): the loop condition holds, the thread enters the body of the loop
EnterTick(d) ==
  /\ alive[d] /\ ~in_tick[d]
  /\ LoopCondition(running[d])
  /\ in_tick' = [in_tick EXCEPT ![d] = TRUE]
  /\ last' = NoTick
  /\ UNCHANGED <<sm, session_uuid, session_images, plate_number, db_session,
                 db_images, next_uuid, signals, script>>
  /\ UNCHANGED <<notStation, ai_enabled, since_snap, running, alive>>

\* run(): the body of the loop, which does not read the flag: the frames are
\* read and _process_cycle runs to its end
FinishTick(d, inputs, faults) ==
  /\ alive[d] /\ in_tick[d]
  /\ in_tick' = [in_tick EXCEPT ![d] = FALSE]
  /\ \E env \in inputs :
       LET due == since_snap[d] > SnapInterval
       IN \E f \in FaultsFor(_process_cycle(World(d), d, env, NoFault, ai_enabled[d], due))
                     \cap faults :
            LET w == _process_cycle(World(d), d, env, f, ai_enabled[d], due)
            IN /\ Commit(d, w, MaxSessions)
               /\ since_snap' = [since_snap EXCEPT
                                   ![d] = IF Made(w, "_save_snap_image") THEN 0 ELSE @]
               /\ alive' = [alive EXCEPT ![d] = LoopSurvives(w.raised)]
  /\ UNCHANGED <<signals, script, ai_enabled, running>>

\* run(): the loop condition fails, run() returns
Return(d) ==
  /\ alive[d] /\ ~in_tick[d]
  /\ ~LoopCondition(running[d])
  /\ alive' = [alive EXCEPT ![d] = FALSE]
  /\ UNCHANGED <<sm, session_uuid, session_images, plate_number, db_session,
                 db_images, next_uuid, last, signals, script>>
  /\ UNCHANGED <<notStation, ai_enabled, since_snap, running, in_tick>>

\* SugarcaneSystem.stop_processors: p.running = False for every processor
ClearRunning ==
  /\ running' = [d \in Stations |-> FALSE]
  /\ last' = NoTick
  /\ UNCHANGED <<sm, session_uuid, session_images, plate_number, db_session,
                 db_images, next_uuid, signals, script>>
  /\ UNCHANGED <<notStation, ai_enabled, since_snap, alive, in_tick>>

\* SugarcaneSystem.set_ai_enabled
set_ai_enabled(enabled) ==
  /\ ai_enabled' = [d \in Stations |-> enabled]
  /\ last' = NoTick
  /\ UNCHANGED <<sm, session_uuid, session_images, plate_number, db_session,
                 db_images, next_uuid, signals, script>>
  /\ UNCHANGED <<notStation, since_snap, running, alive, in_tick>>

\* SugarcaneSystem.stop_processors, and the loop of run() finding running false
stop_processors ==
  /\ running' = [d \in Stations |-> FALSE]
  /\ alive' = [d \in Stations |-> FALSE]
  /\ last' = NoTick
  /\ UNCHANGED <<sm, session_uuid, session_images, plate_number, db_session,
                 db_images, next_uuid, signals, script>>
  /\ UNCHANGED <<notStation, ai_enabled, since_snap, in_tick>>

(* ----------------- station threads and the inference lock ------------- *)
\* the DumpProcessor threads start_processors starts, one per active dump
Threads == 1 .. NumThreads

\* SugarcaneSystem.ai_lock, and the lock each engine would make for itself
ai_lock == "ai_lock"
LockNames == {ai_lock, "LPREngine._lock", "ClassificationEngine._lock"}

\* an engine that locks on its own lock, whatever it is given
EngineLockOwn(global_lock, own) == own

\* self._lock = global_lock if global_lock else threading.Lock()
EngineLock(global_lock, own) == IF global_lock # None THEN global_lock ELSE own

\* the locks of the two engines SugarcaneSystem constructs
lpr_lock == EngineLock(ai_lock, "LPREngine._lock")
cls_lock == EngineLock(ai_lock, "ClassificationEngine._lock")

\* positions of a thread: in the run loop; in front of one of the three
\* with-blocks; inside one of the three model invocations
Waiting == {"detect", "_ocr_plate", "analyze"}
InModel == {"yolo", "readtext", "cls_model"}
LockOf(at) ==
  IF at \in {"detect", "_ocr_plate", "yolo", "readtext"} THEN lpr_lock ELSE cls_lock
Inside(at) ==
  CASE at = "detect" -> "yolo"
    [] at = "_ocr_plate" -> "readtext"
    [] at = "analyze" -> "cls_model"

Loop == [at |-> "loop", caller |-> "run"]

InitLock ==
  /\ pc = [t \in Threads |-> Loop]
  /\ held = [l \in LockNames |-> {}]

\* _process_cycle calls lpr_engine.detect(f_frame, skip_ocr=False)
StartCycle(t) ==
  /\ pc[t].at = "loop"
  /\ pc' = [pc EXCEPT ![t] = [at |-> "detect", caller |-> "_process_cycle"]]
  /\ UNCHANGED held
  /\ UNCHANGED notLock

\* with self._lock: entered once the lock is free
Acquire(t) ==
  /\ pc[t].at \in Waiting
  /\ held[LockOf(pc[t].at)] = {}
  /\ held' = [held EXCEPT ![LockOf(pc[t].at)] = {t}]
  /\ pc' = [pc EXCEPT ![t].at = Inside(@)]
  /\ UNCHANGED notLock

\* where detect returns to: _process_cycle goes on to cls_engine.analyze,
\* _perform_capture goes on to save the image and the cycle ends
DetectReturns(p) ==
  IF p.caller = "_process_cycle" THEN [p EXCEPT !.at = "analyze"] ELSE Loop

\* the position after the model invocation at p.at: it returns (a plate found
\* or not, the capture of IMAGE_1 triggered or not) or it raises to run()
AfterModel(p) ==
  CASE p.at = "yolo" -> {[p EXCEPT !.at = "_ocr_plate"], DetectReturns(p), Loop}
    [] p.at = "readtext" -> {DetectReturns(p)}
    [] p.at = "cls_model" -> {Loop, [at |-> "detect", caller |-> "_perform_capture"]}

\* the model invocation ends and the with-block releases the lock
Release(t) ==
  /\ pc[t].at \in InModel
  /\ held' = [held EXCEPT ![LockOf(pc[t].at)] = {}]
  /\ \E p \in AfterModel(pc[t]) : pc' = [pc EXCEPT ![t] = p]
  /\ UNCHANGED notLock

ThreadStep(t) == StartCycle(t) \/ Acquire(t) \/ Release(t)

NextLock == \E t \in Threads : StartCycle(t) \/ Acquire(t) \/ Release(t)

(* --------------------------- CameraWorker ------------------------------ *)
\* A frame is the number cap.read() delivered it under; a variable holding a
\* frame or None is the sequence of the frames it holds.
NoFrame == <<>>

\* a mailbox that keeps what it held and adds the frame
WriteFrameBuffered(box, frame) == box \o frame

\* self.latest_frame = frame
WriteFrame(box, frame) == frame

\* self.latest_frame.copy()
ReadFrame(box) == box

\* the seconds a wait has lasted one second later: the wait for the source to
\* open is over above CAM_OPEN_TIMEOUT_SEC, a sleep at CAM_RECONNECT_SEC
LaterWait(at, t) ==
  CASE at = "open" -> IF t <= CAM_OPEN_TIMEOUT_SEC THEN t + 1 ELSE t
    [] at = "sleep" -> IF t < CAM_RECONNECT_SEC THEN t + 1 ELSE t
    [] OTHER -> t

\* since_fail of a worker that has not failed yet
NoFailure == CAM_RECONNECT_SEC + 1

\* the seconds since the latest failure one second later
LaterFail(t) == IF t < CAM_RECONNECT_SEC THEN t + 1 ELSE t

InitCam ==
  /\ latest_frame = NoFrame
  /\ lock = {}
  /\ reader_active = FALSE
  /\ cap = [opened |-> FALSE, next |-> 1, dead |-> FALSE, since |-> 1]
  /\ worker = [pc |-> "connect", frame |-> NoFrame, status |-> "Disconnected", timer |-> 0]
  /\ reader = [pc |-> "done", frame |-> NoFrame]
  /\ writes = <<>>
  /\ since_fail = NoFailure

\* one second passes
AdvanceCam ==
  /\ worker' = [worker EXCEPT !.timer = LaterWait(worker.pc, @)]
  /\ since_fail' = LaterFail(since_fail)
  /\ UNCHANGED <<latest_frame, lock, reader_active, cap, reader, writes>>
  /\ UNCHANGED notCam

\* the camera goes away for good: its source opens no more, its reads fail
SourceDies ==
  /\ ~cap.dead
  /\ cap' = [cap EXCEPT !.dead = TRUE]
  /\ UNCHANGED <<latest_frame, lock, reader_active, worker, reader, writes, since_fail>>
  /\ UNCHANGED notCam

\* run(): status "Connecting..." is pushed and cv2.VideoCapture is called
BeginConnect ==
  /\ worker.pc = "connect"
  /\ worker' = [worker EXCEPT !.pc = "open", !.status = "Connecting...", !.timer = 0]
  /\ UNCHANGED <<latest_frame, lock, reader_active, cap, reader, writes, since_fail>>
  /\ UNCHANGED notCam

\* run(): the source is open: status "Connected", the reader thread is started
Connect ==
  /\ worker.pc = "open"
  /\ ~cap.dead
  /\ cap' = [cap EXCEPT !.opened = TRUE, !.since = cap.next]
  /\ reader_active' = TRUE
  /\ reader' = [pc |-> "read", frame |-> reader.frame]
  /\ worker' = [worker EXCEPT !.pc = "loop", !.status = "Connected", !.timer = 0]
  /\ UNCHANGED <<latest_frame, lock, writes, since_fail>>
  /\ UNCHANGED notCam

\* run(): the source is not open after CAM_OPEN_TIMEOUT_SEC: status
\* "Disconnected", time.sleep(CAM_RECONNECT_SEC)
OpenFails ==
  /\ worker.pc = "open"
  /\ worker.timer > CAM_OPEN_TIMEOUT_SEC
  /\ worker' = [worker EXCEPT !.pc = "sleep", !.status = "Disconnected", !.timer = 0]
  /\ since_fail' = 0
  /\ UNCHANGED <<latest_frame, lock, reader_active, cap, reader, writes>>
  /\ UNCHANGED notCam

\* run(): cv2.VideoCapture raises: status "Error: ...", time.sleep(CAM_RECONNECT_SEC)
OpenRaises ==
  /\ worker.pc = "open"
  /\ worker' = [worker EXCEPT !.pc = "sleep", !.status = "Error", !.timer = 0]
  /\ since_fail' = 0
  /\ UNCHANGED <<latest_frame, lock, reader_active, cap, reader, writes>>
  /\ UNCHANGED notCam

\* run(): the sleep is over; continue
Wake ==
  /\ worker.pc = "sleep"
  /\ worker.timer >= CAM_RECONNECT_SEC
  /\ worker' = [worker EXCEPT !.pc = "connect", !.timer = 0]
  /\ UNCHANGED <<latest_frame, lock, reader_active, cap, reader, writes, since_fail>>
  /\ UNCHANGED notCam

\* _reader_loop: the loop condition and cap.read()
ReaderRead ==
  /\ reader.pc = "read"
  /\ \/ /\ reader_active /\ cap.opened /\ ~cap.dead /\ cap.next <= MaxFrames
        /\ reader' = [pc |-> "with_lock", frame |-> <<cap.next>>]
        /\ cap' = [cap EXCEPT !.next = @ + 1]
        /\ UNCHANGED <<reader_active, since_fail>>
     \/ /\ reader' = [reader EXCEPT !.pc = "done"]
        /\ reader_active' = FALSE
        /\ since_fail' = IF reader_active /\ cap.opened THEN 0 ELSE since_fail
        /\ UNCHANGED cap
  /\ UNCHANGED <<latest_frame, lock, worker, writes>>
  /\ UNCHANGED notCam

\* _reader_loop: with self.lock
ReaderLock ==
  /\ reader.pc = "with_lock"
  /\ lock = {}
  /\ lock' = {"reader"}
  /\ reader' = [reader EXCEPT !.pc = "locked"]
  /\ UNCHANGED <<latest_frame, reader_active, cap, worker, writes>>
  /\ UNCHANGED since_fail
  /\ UNCHANGED notCam

\* _reader_loop: self.latest_frame = frame, and the lock is released
ReaderStore ==
  /\ reader.pc = "locked"
  /\ latest_frame' = WriteFrame(latest_frame, reader.frame)
  /\ writes' = writes \o reader.frame
  /\ lock' = {}
  /\ reader' = [reader EXCEPT !.pc = "read"]
  /\ UNCHANGED <<reader_active, cap, worker>>
  /\ UNCHANGED since_fail
  /\ UNCHANGED notCam

\* run(): while not stop_event.is_set() and self.reader_active
WorkerLoop ==
  /\ worker.pc = "loop"
  /\ worker' = [worker EXCEPT !.pc = IF reader_active THEN "with_lock" ELSE "cleanup",
                              !.frame = NoFrame]
  /\ UNCHANGED <<latest_frame, lock, reader_active, cap, reader, writes>>
  /\ UNCHANGED since_fail
  /\ UNCHANGED notCam

\* run(): with self.lock
WorkerLock ==
  /\ worker.pc = "with_lock"
  /\ lock = {}
  /\ lock' = {"run"}
  /\ worker' = [worker EXCEPT !.pc = "locked"]
  /\ UNCHANGED <<latest_frame, reader_active, cap, reader, writes>>
  /\ UNCHANGED since_fail
  /\ UNCHANGED notCam

\* run(): frame = self.latest_frame.copy() if there is one, and the lock is
\* released
WorkerCopy ==
  /\ worker.pc = "locked"
  /\ worker' = [worker EXCEPT
                  !.pc = IF latest_frame = NoFrame THEN "no_frame" ELSE "publish",
                  !.frame = ReadFrame(latest_frame)]
  /\ lock' = {}
  /\ UNCHANGED <<latest_frame, reader_active, cap, reader, writes>>
  /\ UNCHANGED since_fail
  /\ UNCHANGED notCam

\* run(): if frame is None: break when the reader has stopped, else sleep
WorkerNoFrame ==
  /\ worker.pc = "no_frame"
  /\ worker' = [worker EXCEPT !.pc = IF reader_active THEN "loop" ELSE "cleanup"]
  /\ UNCHANGED <<latest_frame, lock, reader_active, cap, reader, writes>>
  /\ UNCHANGED since_fail
  /\ UNCHANGED notCam

\* run(): the frame goes to the detector and to the output queue
WorkerPublish ==
  /\ worker.pc = "publish"
  /\ worker' = [worker EXCEPT !.pc = "loop", !.status = "Connected"]
  /\ UNCHANGED <<latest_frame, lock, reader_active, cap, reader, writes>>
  /\ UNCHANGED since_fail
  /\ UNCHANGED notCam

\* run(): reader_active = False; t_read.join; cap.release(). Without a stop
\* request the loop is left only after the reader cleared reader_active on
\* its way out, so the join finds the reader finished.
Cleanup ==
  /\ worker.pc = "cleanup"
  /\ reader.pc = "done"
  /\ reader_active' = FALSE
  /\ cap' = [cap EXCEPT !.opened = FALSE]
  /\ worker' = [worker EXCEPT !.pc = "connect"]
  /\ UNCHANGED <<latest_frame, lock, reader, writes>>
  /\ UNCHANGED since_fail
  /\ UNCHANGED notCam

\* run(): cap.release() raises: status "Error: ...", time.sleep(CAM_RECONNECT_SEC)
CleanupRaises ==
  /\ worker.pc = "cleanup"
  /\ reader.pc = "done"
  /\ reader_active' = FALSE
  /\ worker' = [worker EXCEPT !.pc = "sleep", !.status = "Error", !.timer = 0]
  /\ since_fail' = 0
  /\ UNCHANGED <<latest_frame, lock, cap, reader, writes>>
  /\ UNCHANGED notCam

NextCam ==
  \/ AdvanceCam \/ SourceDies
  \/ BeginConnect \/ Connect \/ OpenFails \/ OpenRaises \/ Wake \/ CleanupRaises
  \/ ReaderRead \/ ReaderLock \/ ReaderStore
  \/ WorkerLoop \/ WorkerLock \/ WorkerCopy \/ WorkerNoFrame \/ WorkerPublish
  \/ Cleanup

(* ------------------------- CameraManager ------------------------------- *)
\* CameraManager.channels: the channels the manager is given, two of them
NumChannels == 2
Channels == 1..NumChannels

\* the tuple (kind, channel, payload, timestamp) a worker puts; the timestamp
\* is the number of the message among those of its channel
Msg(kind, ch, ts) == [kind |-> kind, channel |-> ch, ts |-> ts]

\* queue.Queue.put of a pump that puts at the head
PutFirst(q, msg) == <<msg>> \o q

\* queue.Queue.put
Put(q, msg) == Append(q, msg)

InitMgr ==
  /\ frame_q = <<>>
  /\ ui_q = <<>>
  /\ pump = [pc |-> "get", msg |-> <<>>]
  /\ publisher = [ch \in Channels |-> [pc |-> "run", ts |-> 1]]

\* _push_status: frame_q.put(("STATUS", channel, status, time.time()))
_push_status(ch) ==
  /\ publisher[ch].pc = "run"
  /\ publisher[ch].ts <= MaxMsgs
  /\ Len(frame_q) < MaxQueue
  /\ frame_q' = Put(frame_q, Msg("STATUS", ch, publisher[ch].ts))
  /\ publisher' = [publisher EXCEPT ![ch].ts = @ + 1]
  /\ UNCHANGED <<ui_q, pump>>
  /\ UNCHANGED notMgr

\* run(): the processor loop has a frame to publish
BeginPublish(ch) ==
  /\ publisher[ch].pc = "run"
  /\ publisher[ch].ts <= MaxMsgs
  /\ publisher' = [publisher EXCEPT ![ch].pc = "trim"]
  /\ UNCHANGED <<frame_q, ui_q, pump>>
  /\ UNCHANGED notMgr

\* run(): while frame_q.qsize() > 2: frame_q.get_nowait(), one turn of it
Trim(ch) ==
  /\ publisher[ch].pc = "trim"
  /\ IF Len(frame_q) > TrimAbove
       THEN frame_q' = Tail(frame_q) /\ UNCHANGED publisher
       ELSE publisher' = [publisher EXCEPT ![ch].pc = "put"] /\ UNCHANGED frame_q
  /\ UNCHANGED <<ui_q, pump>>
  /\ UNCHANGED notMgr

\* run(): frame_q.put(("FRAME", channel, frame, now))
PutFrame(ch) ==
  /\ publisher[ch].pc = "put"
  /\ Len(frame_q) < MaxQueue
  /\ frame_q' = Put(frame_q, Msg("FRAME", ch, publisher[ch].ts))
  /\ publisher' = [publisher EXCEPT ![ch].pc = "run", ![ch].ts = @ + 1]
  /\ UNCHANGED <<ui_q, pump>>
  /\ UNCHANGED notMgr

\* _pump_loop: msg = frame_q.get(timeout=0.5)
PumpGet ==
  /\ pump.pc = "get"
  /\ frame_q # <<>>
  /\ pump' = [pc |-> "put", msg |-> <<Head(frame_q)>>]
  /\ frame_q' = Tail(frame_q)
  /\ UNCHANGED <<ui_q, publisher>>
  /\ UNCHANGED notMgr

\* _pump_loop: ui_q.put(msg)
PumpPut ==
  /\ pump.pc = "put"
  /\ ui_q' = Put(ui_q, pump.msg[1])
  /\ pump' = [pc |-> "get", msg |-> <<>>]
  /\ UNCHANGED <<frame_q, publisher>>
  /\ UNCHANGED notMgr

NextMgr ==
  \/ \E ch \in Channels :
       _push_status(ch) \/ BeginPublish(ch) \/ Trim(ch) \/ PutFrame(ch)
  \/ PumpGet \/ PumpPut

(* ------------------ CameraManager: start and stop ---------------------- *)
\* the threads one call of start() starts: a worker per channel and a pump
Started(gen) ==
  {[kind |-> "worker", channel |-> ch, gen |-> gen] : ch \in Channels}
  \cup {[kind |-> "pump", channel |-> 0, gen |-> gen]}

InitRestart ==
  /\ stop_event = FALSE
  /\ threads = {}
  /\ started = 0

\* CameraManager.start: the event is cleared, the list of workers is
\* emptied, a worker per channel and a pump are started
start ==
  /\ started < MaxStarts
  /\ stop_event' = FALSE
  /\ threads' = threads \cup Started(started + 1)
  /\ started' = started + 1
  /\ UNCHANGED notRestart

\* CameraManager.stop
stop ==
  /\ stop_event' = TRUE
  /\ UNCHANGED <<threads, started>>
  /\ UNCHANGED notRestart

\* run() and _pump_loop: the thread finds stop_event set at the top of its
\* loop and returns
ThreadExits(t) ==
  /\ t \in threads
  /\ stop_event
  /\ threads' = threads \ {t}
  /\ UNCHANGED <<stop_event, started>>
  /\ UNCHANGED notRestart

NextRestart ==
  \/ start
  \/ stop
  \/ \E t \in threads : ThreadExits(t)

(* ---------------------------- Orchestrator ----------------------------- *)
\* a job thread: _run_agent_only or _run_daily_and_then_agent, and where it stands
Job(kind) == [kind |-> kind, pc |-> "start"]

InitOrch ==
  /\ daily_is_running = FALSE
  /\ agent_is_running = FALSE
  /\ jobs = <<>>

\* trigger_agent_now: refused while agent_is_running, else the thread of
\* _run_agent_only is started
trigger_agent_now ==
  /\ Len(jobs) < MaxJobs
  /\ ~agent_is_running
  /\ jobs' = Append(jobs, Job("_run_agent_only"))
  /\ UNCHANGED <<daily_is_running, agent_is_running>>
  /\ UNCHANGED notOrch

\* trigger_daily_now, called by hand or by _daily_scheduler_loop at the hour:
\* refused while daily_is_running, else the thread of
\* _run_daily_and_then_agent is started
trigger_daily_now ==
  /\ Len(jobs) < MaxJobs
  /\ ~daily_is_running
  /\ jobs' = Append(jobs, Job("_run_daily_and_then_agent"))
  /\ UNCHANGED <<daily_is_running, agent_is_running>>
  /\ UNCHANGED notOrch

\* _run_agent_only: agent_is_running = True, then the agent script is run
AgentOnlyBegins(i) ==
  /\ jobs[i].kind = "_run_agent_only" /\ jobs[i].pc = "start"
  /\ agent_is_running' = TRUE
  /\ jobs' = [jobs EXCEPT ![i].pc = "agent"]
  /\ UNCHANGED daily_is_running
  /\ UNCHANGED notOrch

\* _run_daily_and_then_agent: daily_is_running = True
DailyBegins(i) ==
  /\ jobs[i].kind = "_run_daily_and_then_agent" /\ jobs[i].pc = "start"
  /\ daily_is_running' = TRUE
  /\ jobs' = [jobs EXCEPT ![i].pc = "daily"]
  /\ UNCHANGED agent_is_running
  /\ UNCHANGED notOrch

\* _run_daily_and_then_agent: daily_is_running = False, agent_is_running =
\* True, then the agent script is run
DailyThenAgent(i) ==
  /\ jobs[i].pc = "daily"
  /\ daily_is_running' = FALSE
  /\ agent_is_running' = TRUE
  /\ jobs' = [jobs EXCEPT ![i].pc = "agent"]
  /\ UNCHANGED notOrch

\* the agent script returns: agent_is_running = False
AgentReturns(i) ==
  /\ jobs[i].pc = "agent"
  /\ agent_is_running' = FALSE
  /\ jobs' = [jobs EXCEPT ![i].pc = "done"]
  /\ UNCHANGED daily_is_running
  /\ UNCHANGED notOrch

NextOrch ==
  \/ trigger_agent_now
  \/ trigger_daily_now
  \/ \E i \in DOMAIN jobs :
       AgentOnlyBegins(i) \/ DailyBegins(i) \/ DailyThenAgent(i) \/ AgentReturns(i)

(* ------------------- station driven by signal pairs -------------------- *)
InitStation ==
  /\ sm = [d \in Stations |-> NewStateManager]
  /\ session_uuid = [d \in Stations |-> None]
  /\ session_images = [d \in Stations |-> EmptyImages]
  /\ plate_number = [d \in Stations |-> "UNKNOWN"]
  /\ db_session = <<>>
  /\ db_images = {}
  /\ next_uuid = 1
  /\ last = NoTick
  /\ signals = [front |-> <<>>, top |-> <<>>]
  /\ script = 0

Init ==
  InitStation /\ InitLock /\ InitCam /\ InitRun /\ InitMgr /\ InitRestart /\ InitOrch

SpecLock == Init /\ [][NextLock]_vars

\* the threads under a fair scheduler: a thread that can take its next step
\* from some point on takes it
FairSpecLock == SpecLock /\ \A t \in Threads : WF_lockVars(ThreadStep(t))

SpecCam == Init /\ [][NextCam]_vars

SpecMgr == Init /\ [][NextMgr]_vars

SpecRestart == Init /\ [][NextRestart]_vars

SpecOrch == Init /\ [][NextOrch]_vars

\* time.time() - last_state_change one second later
Later(e) == IF e < MaxElapsed THEN e + 1 ELSE e

\* one second passes
Advance ==
  /\ sm' = [d \in Stations |-> [sm[d] EXCEPT !.since_change = Later(@)]]
  /\ last' = NoTick
  /\ UNCHANGED <<session_uuid, session_images, plate_number, db_session,
                 db_images, next_uuid, signals, script>>
  /\ UNCHANGED <<notStation, runVars>>

\* a tick of station d on some signal pair (front, top): the rest of the tick
\* reads the signals only through what update made of them
SignalTick(d, most, faults) ==
  \E m1 \in {update(sm[d], front, top) : front \in FrontInputs, top \in TopInputs} :
    \E f \in FaultsFor(AfterUpdate(World(d), m1, d, NoFault)) \cap faults :
      /\ Commit(d, AfterUpdate(World(d), m1, d, f), most)
      /\ UNCHANGED <<signals, script, runVars>>

NextSig ==
  Advance \/ \E d \in Stations : SignalTick(d, MaxSessions, Faults)

SpecSig == Init /\ [][NextSig]_vars

\* the same station over one session more, under the faults of the repository
\* writes alone
RepositoryFaults == {f \in Faults : f.merge_ok /\ f.save_ok}
NextSigMore ==
  Advance \/ \E d \in Stations : SignalTick(d, MaxSessions + 1, RepositoryFaults)

SpecSigMore == Init /\ [][NextSigMore]_vars

(* ------------------ StateManager driven on its own --------------------- *)
procVars ==
  <<session_uuid, session_images, plate_number, db_session, db_images,
    next_uuid>>

\* update(front, top) on any signal pair
Update(d) ==
  \E front \in FrontInputs, top \in TopInputs :
    /\ sm' = [sm EXCEPT ![d] = update(@, front, top)]
    /\ signals' = [front |-> front, top |-> top]
    /\ UNCHANGED <<procVars, last, script, notStation, runVars>>

\* the caller fulfils the pending requirement: get_capture_trigger, mark_captured
MarkCaptured(d) ==
  /\ get_capture_trigger(sm[d]) # None
  /\ sm' = [sm EXCEPT ![d] = mark_captured(@, get_capture_trigger(sm[d]))]
  /\ UNCHANGED <<procVars, last, signals, script>>
  /\ UNCHANGED <<notStation, runVars>>

NextFSM ==
  Advance \/ \E d \in Stations : Update(d) \/ MarkCaptured(d)

SpecFSM == Init /\ [][NextFSM]_vars

(* ------------ StateManager driven on maps with absent fields ----------- *)
\* update(front, top) on maps that each lack a field
UpdatePartial(d) ==
  \E front \in PartialFront, top \in PartialTop :
    /\ sm' = [sm EXCEPT ![d] = update(@, front, top)]
    /\ UNCHANGED <<procVars, last, signals, script, notStation, runVars>>

NextPartial ==
  Advance \/ \E d \in Stations : UpdatePartial(d) \/ MarkCaptured(d)

SpecPartial == Init /\ [][NextPartial]_vars

(* ------------- station driven by the end-to-end scenario --------------- *)
\* The scenario of the design's testable properties: the signal pairs in order,
\* a field the scenario leaves out being absent from the map, and the top map
\* carried over from tick to tick with the fields the scenario restates.
\* dwell: the time in the current state after which the tick is fed.
TopLoaded == [cane_detected |-> TRUE, cane_percentage |-> 95, dumping |-> FALSE]
TopDumping == [cane_detected |-> TRUE, cane_percentage |-> 95, dumping |-> TRUE]
TopEmpty == [cane_detected |-> FALSE, cane_percentage |-> 95, dumping |-> TRUE]
Scenario ==
  << [front |-> [truck_detected |-> TRUE], top |-> TopLoaded, dwell |-> debounce_time],
     [front |-> [lifting |-> TRUE], top |-> TopLoaded, dwell |-> debounce_time],
     [front |-> [lift_max |-> TRUE], top |-> TopDumping, dwell |-> debounce_time],
     [front |-> [lift_max |-> TRUE], top |-> TopDumping, dwell |-> DwellTime + 1],
     [front |-> [lift_max |-> TRUE], top |-> TopEmpty, dwell |-> debounce_time],
     [front |-> [lowering |-> TRUE], top |-> TopEmpty, dwell |-> debounce_time],
     [front |-> [truck_detected |-> TRUE], top |-> TopEmpty, dwell |-> debounce_time],
     [front |-> [truck_detected |-> FALSE], top |-> TopEmpty, dwell |-> debounce_time],
     [front |-> [truck_detected |-> FALSE], top |-> TopEmpty, dwell |-> debounce_time] >>

\* the next tick of the scenario, fed once its dwell has passed; no step fails
ScenarioTick(d) ==
  /\ script < Len(Scenario)
  /\ sm[d].since_change >= Scenario[script + 1].dwell
  /\ \E ocr \in PlateTexts :
       Commit(d, FsmAndCapture(World(d), d, Scenario[script + 1].front,
                               Scenario[script + 1].top, [NoFault EXCEPT !.ocr = ocr]),
              MaxSessions)
  /\ signals' = [front |-> Scenario[script + 1].front, top |-> Scenario[script + 1].top]
  /\ script' = script + 1
  /\ UNCHANGED runVars

NextE2E ==
  Advance \/ \E d \in Stations : ScenarioTick(d)

SpecE2E == Init /\ [][NextE2E]_vars

(* --------------------- station run by its thread ----------------------- *)
\* time.time() - last_snap_time one second later
LaterSnap(e) == IF e <= SnapInterval THEN e + 1 ELSE e

\* one second passes
AdvanceRun ==
  /\ sm' = [d \in Stations |-> [sm[d] EXCEPT !.since_change = Later(@)]]
  /\ since_snap' = [d \in Stations |-> LaterSnap(since_snap[d])]
  /\ last' = NoTick
  /\ UNCHANGED <<procVars, signals, script, notStation, ai_enabled, running, alive,
                 in_tick>>

\* the station with AI on, under every input and fault
NextRun ==
  \/ AdvanceRun
  \/ \E d \in Stations : RunTick(d, TickInputs, Faults)
  \/ stop_processors

SpecRun == Init /\ [][NextRun]_vars

\* the station with AI switched on and off at any time, nothing raising and
\* no write failing
NextAI ==
  \/ AdvanceRun
  \/ \E d \in Stations : RunTick(d, QuietInputs, {NoFault})
  \/ \E enabled \in BOOLEAN : set_ai_enabled(enabled)

SpecAI == Init /\ [][NextAI]_vars

\* a step of the thread of station d, the loop of run() taken check by check
ThreadOf(d) == EnterTick(d) \/ FinishTick(d, QuietInputs, {NoFault}) \/ Return(d)

\* the station stopped at any time, nothing raising and no write failing
NextStop ==
  \/ AdvanceRun
  \/ \E d \in Stations : EnterTick(d)
  \/ \E d \in Stations : FinishTick(d, QuietInputs, {NoFault})
  \/ \E d \in Stations : Return(d)
  \/ ClearRunning

SpecStop == Init /\ [][NextStop]_vars

\* the thread under a fair scheduler, every call it makes returning
FairSpecStop == SpecStop /\ \A d \in Stations : WF_runVars(ThreadOf(d))

(* ------------------------------ claims --------------------------------- *)
\* The transition table of the design: the condition under which the edge
\* from s to t may be taken on the signal pair (front, top).
EdgeCondition(s, t, front, top) ==
  LET truck == Get(front, "truck_detected", FALSE)
      cane == Get(top, "cane_detected", FALSE)
  IN \/ s = EMPTY_IDLE /\ t = TRUCK_IN /\ truck /\ cane
     \/ s = TRUCK_IN /\ t = DUMP_LIFT /\ Get(front, "lifting", FALSE)
          /\ Get(top, "cane_percentage", 0) >= 90
     \/ s = DUMP_LIFT /\ t = DUMPING_ACTIVE /\ Get(front, "lift_max", FALSE)
          /\ Get(top, "dumping", FALSE)
     \/ s = DUMPING_ACTIVE /\ t = DUMPING_EMPTY /\ Get(front, "lift_max", FALSE) /\ ~cane
     \/ s = DUMPING_EMPTY /\ t = DUMP_DOWN /\ Get(front, "lowering", FALSE) /\ ~cane
     \/ s = DUMP_DOWN /\ t = TRUCK_OUT /\ truck /\ ~cane
     \/ s = TRUCK_OUT /\ t = EMPTY_RESET /\ ~truck /\ ~cane
     \/ s = EMPTY_RESET /\ t = EMPTY_IDLE

\* C1: every change of the FSM state made by update() is one of the eight
\* edges of the transition table, taken only when that edge's front-and-top
\* condition holds on the signals of that call; no state is skipped.
C1_OnlyTableEdges ==
  [][\A d \in Stations :
       sm'[d].state # sm[d].state =>
         EdgeCondition(sm[d].state, sm'[d].state, signals'.front, signals'.top)]_vars

\* C1 witness: the state machine has walked the seven conditional edges.
C1_Witness == sm[1].state = EMPTY_RESET

\* C2: a change of the FSM state happens only when at least debounce_time
\* has passed since the previous change: a call of update inside the window
\* leaves the state as it was, whatever the signals.
C2_Debounce ==
  [][\A d \in Stations :
       sm[d].since_change < debounce_time => sm'[d].state = sm[d].state]_vars

\* C2 witness: inside the window after entering TRUCK_IN, update was called
\* with signals that qualify for the edge to DUMP_LIFT (and not for the edge
\* just taken), and the state machine is still in TRUCK_IN.
C2_Witness ==
  /\ sm[1].state = TRUCK_IN
  /\ sm[1].since_change < debounce_time
  /\ DOMAIN signals.front # {}
  /\ ~signals.front["truck_detected"]
  /\ EdgeCondition(TRUCK_IN, DUMP_LIFT, signals.front, signals.top)

\* what the latest step called: the calls of method op, and those for image type t
CallsOf(l, op) == {i \in 1..Len(l.calls) : l.calls[i].op = op}
Enters(d, s) == sm'[d].state = s /\ sm[d].state # s

OpenSessions(d) ==
  {u \in DOMAIN db_session :
     db_session[u].dump_id = d /\ db_session[u].end_time = None}

Expected ==
  << [state |-> TRUCK_IN, captured |-> <<"IMAGE_1">>],
     [state |-> DUMP_LIFT, captured |-> <<"IMAGE_1", "IMAGE_2">>],
     [state |-> DUMPING_ACTIVE, captured |-> <<"IMAGE_1", "IMAGE_2", "IMAGE_3">>],
     [state |-> DUMPING_ACTIVE, captured |-> <<"IMAGE_1", "IMAGE_2", "IMAGE_3", "IMAGE_4">>],
     [state |-> DUMPING_EMPTY, captured |-> <<"IMAGE_1", "IMAGE_2", "IMAGE_3", "IMAGE_4">>],
     [state |-> DUMP_DOWN, captured |-> <<"IMAGE_1", "IMAGE_2", "IMAGE_3", "IMAGE_4">>],
     [state |-> TRUCK_OUT, captured |-> <<"IMAGE_1", "IMAGE_2", "IMAGE_3", "IMAGE_4">>],
     [state |-> EMPTY_RESET, captured |-> <<"IMAGE_1", "IMAGE_2", "IMAGE_3", "IMAGE_4">>],
     [state |-> EMPTY_IDLE, captured |-> <<>>] >>

C7_OneInvocation ==
  \A t \in Threads :
    pc[t].at \in InModel =>
      /\ LockOf(pc[t].at) = ai_lock
      /\ held[ai_lock] = {t}
      /\ \A u \in Threads \ {t} : pc[u].at \notin InModel

\* C7 witness: one thread is inside the OCR read while another waits in
\* front of the classification model.
C7_Witness ==
  \E t, u \in Threads : pc[t].at = "readtext" /\ pc[u].at = "analyze"

\* C8: under fair thread scheduling every station that requests the
\* inference lock eventually acquires it.
C8_NoStarvation ==
  \A t \in Threads : (pc[t].at \in Waiting) ~> (pc[t].at \in InModel)

\* C9: the mailbox holds at most one frame, and a consumer read observes
\* exactly the most recently written frame.
C9_NewestOnly ==
  [][/\ Len(latest_frame') <= 1
     /\ (worker.pc = "locked" /\ worker'.pc # "locked" /\ writes # <<>>
           => worker'.frame = <<writes[Len(writes)]>>)]_vars

\* C9 witness: the consumer holds the second frame written.
C9_Witness ==
  /\ worker.pc = "publish"
  /\ writes = <<1, 2>>
  /\ worker.frame = <<2>>

\* C11: an exception raised inside a tick never ends the loop of run(): while
\* running is set the thread is in its loop, whatever its ticks raised.
C11_LoopSurvives == \A d \in Stations : running[d] => alive[d]

\* C11 witness: the capture of the latest tick raised and the thread is in
\* its loop.
C11_Witness ==
  /\ last.raised /\ Made(last, "_perform_capture")
  /\ running[1] /\ alive[1]

\* a tick in which a persistence step failed: it raised, or its
\* create_session came back without a uuid
PersistenceFailed(l) ==
  l.raised \/ \E i \in CallsOf(l, "create_session") : l.calls[i].uuid = ""

\* C12: a tick in which a persistence step fails leaves the FSM state
\* unchanged.
C12_FailedTickKeepsState ==
  [][\A d \in Stations :
       last'.dump = d /\ PersistenceFailed(last') => sm'[d].state = sm[d].state]_vars

\* a tick that found the frame of a channel missing
FrameMissing(l) ==
  \E i \in CallsOf(l, "cap.read") : ~(l.calls[i].arg[1] /\ l.calls[i].arg[2])

C14_OcrOnlyAtImage1 ==
  [][Cardinality(CallsOf(last', "readtext"))
       = Cardinality({i \in CallsOf(last', "_perform_capture") :
                        last'.calls[i].arg = "IMAGE_1"})]_vars

\* C20: a tick while AI is disabled makes no call but the frame reads and the
\* snapshots, leaves the FSM, the session and the tables unchanged, and takes
\* a snapshot, of both channels, only more than 10 s after the one before.
C20_AiOffBypass ==
  [][\A d \in Stations :
       last'.dump = d /\ ~ai_enabled[d] =>
         /\ \A i \in DOMAIN last'.calls :
              last'.calls[i].op \in {"cap.read", "_save_snap_image"}
         /\ sm'[d] = sm[d]
         /\ session_uuid'[d] = session_uuid[d]
         /\ session_images'[d] = session_images[d]
         /\ db_session' = db_session /\ db_images' = db_images
         /\ (Made(last', "_save_snap_image") =>
               /\ since_snap[d] > SnapInterval
               /\ Cardinality(CallsOf(last', "_save_snap_image")) = 2)]_vars

\* C20 witness: a station with an open session has just taken a snapshot
\* with AI disabled.
C20_Witness ==
  /\ ~ai_enabled[1]
  /\ Made(last, "_save_snap_image")
  /\ Truthy(session_uuid[1])

\* the status changes of the connection state machine
StatusEdges ==
  { <<"Disconnected", "Connecting...">>, <<"Connecting...", "Connected">>,
    <<"Connected", "Disconnected">>, <<"Connecting...", "Disconnected">>,
    <<"Error", "Connecting...">> }

\* C15: the status of a stream worker changes only along Disconnected ->
\* Connecting -> Connected -> Disconnected, Connecting -> Disconnected, or to
\* Error: after a read failure it is Disconnected before the next Connecting.
C15_StatusEdges ==
  [][worker'.status # worker.status =>
       \/ <<worker.status, worker'.status>> \in StatusEdges
       \/ worker'.status = "Error"]_vars

\* C16: a worker that has failed opens the source again only after at least
\* CAM_RECONNECT_SEC seconds.
C16_BackoffBeforeReconnect ==
  [][worker.pc = "connect" /\ worker'.pc = "open" /\ since_fail # NoFailure =>
       since_fail >= CAM_RECONNECT_SEC]_vars

\* C17: once a source that opens no more has failed to open, the status of
\* its worker stays Disconnected.
C17_StaysDisconnected ==
  [][cap.dead /\ since_fail # NoFailure /\ worker.status = "Disconnected" =>
       worker'.status = "Disconnected"]_vars

\* C18: the queue the workers publish onto holds at most 3 entries.
C18_QueueBounded == Len(frame_q) <= TrimAbove + 1

\* the timestamps of the messages of channel ch in q, in the order of q
RECURSIVE StampsOf(_, _)
StampsOf(q, ch) ==
  IF q = <<>> THEN <<>>
  ELSE (IF Head(q).channel = ch THEN <<Head(q).ts>> ELSE <<>>) \o StampsOf(Tail(q), ch)

\* C19: the messages of each channel stand in the consumer queue in the
\* order its worker published them, none of them twice.
C19_MergedInOrder ==
  \A ch \in Channels :
    LET stamps == StampsOf(ui_q, ch)
    IN \A i, j \in DOMAIN stamps : i < j => stamps[i] < stamps[j]

\* C19 witness: messages of both channels, several of one of them, have
\* reached the consumer queue, and a trim has discarded an earlier one.
C19_Witness ==
  /\ \A ch \in Channels : Len(StampsOf(ui_q, ch)) >= 1
  /\ Len(StampsOf(ui_q, 1)) >= 2
  /\ \E ch \in Channels :
       \E i \in DOMAIN StampsOf(ui_q, ch) : StampsOf(ui_q, ch)[i] # i

\* C22: in DUMPING_ACTIVE get_capture_trigger returns IMAGE_3 whenever IMAGE_3
\* is not yet captured, and IMAGE_4 exactly when IMAGE_3 is captured, IMAGE_4
\* is not, and the dwell in DUMPING_ACTIVE is at least 6 s.
C22_ActiveTriggers ==
  \A d \in Stations :
    sm[d].state = DUMPING_ACTIVE =>
      LET m == sm[d]
          trigger == get_capture_trigger(m)
      IN /\ ~Contains(m.captured_images, "IMAGE_3") => trigger = "IMAGE_3"
         /\ trigger = "IMAGE_4" <=>
               /\ Contains(m.captured_images, "IMAGE_3")
               /\ ~Contains(m.captured_images, "IMAGE_4")
               /\ m.since_change >= DwellTime

\* C23: mark_captured is idempotent: in every state and for every image
\* type, a second call in a row leaves the StateManager, its captured-image
\* record and its capture trigger as the first call left them.
C23_MarkIdempotent ==
  \A d \in Stations : \A t \in ImageTypes :
    LET once == mark_captured(sm[d], t)
        twice == mark_captured(once, t)
    IN /\ twice.captured_images = once.captured_images
       /\ get_capture_trigger(twice) = get_capture_trigger(once)

\* C24: in EMPTY_RESET the next call of update moves the FSM to EMPTY_IDLE,
\* whatever the signals and however soon after EMPTY_RESET was entered.
C24_ResetOnNextUpdate ==
  [][\A d \in Stations :
       signals' # signals /\ sm[d].state = EMPTY_RESET =>
         sm'[d].state = EMPTY_IDLE]_vars

\* C25: in every reachable state of a station driven by the orchestrator, FSM
\* state EMPTY_IDLE implies that the captured-image set is empty.
C25_IdleHasNoCaptures ==
  \A d \in Stations : sm[d].state = EMPTY_IDLE => sm[d].captured_images = <<>>

\* C25 witness: the station is back in EMPTY_IDLE after a cycle in which
\* images were captured.
C25_Witness == sm[1].state = EMPTY_IDLE /\ db_images # {}

\* the states of a cycle in progress
CycleStates ==
  {TRUCK_IN, DUMP_LIFT, DUMPING_ACTIVE, DUMPING_EMPTY, DUMP_DOWN, TRUCK_OUT}

C28_TransitionLogged ==
  [][\A d \in Stations :
       last'.dump = d /\ sm'[d].state # sm[d].state =>
         Cardinality(CallsOf(last', "log_state_transition")) = 1]_vars

\* a signal map with every absent field filled in: booleans false, the
\* percentage 0
Complete(front) ==
  [k \in FrontKeys |-> IF k \in DOMAIN front THEN front[k] ELSE FALSE]
CompleteTop(top) ==
  [cane_detected |-> IF "cane_detected" \in DOMAIN top THEN top.cane_detected ELSE FALSE,
   cane_percentage |-> IF "cane_percentage" \in DOMAIN top THEN top.cane_percentage ELSE 0,
   dumping |-> IF "dumping" \in DOMAIN top THEN top.dumping ELSE FALSE]

\* C29: update is total: in every state, on every pair of signal maps with
\* any or all fields absent, it leaves the FSM in a defined state, the one it
\* reaches with absent booleans read as false and an absent percentage as 0,
\* and returns a boolean that is true exactly when the state changed.
C29_UpdateTotal ==
  \A d \in Stations :
    \A f \in FrontInputs, t \in TopInputs :
      \A FK \in SUBSET FrontKeys, TK \in SUBSET TopKeys :
        LET front == Restrict(f, FK)
            top == Restrict(t, TK)
            m1 == update(sm[d], front, top)
        IN /\ m1.state \in DumpState
           /\ m1 = update(sm[d], Complete(front), CompleteTop(top))
           /\ Returned(sm[d], front, top) \in BOOLEAN
           /\ Returned(sm[d], front, top) <=> m1.state # sm[d].state

\* C29 witness: calls of update on maps with absent fields have taken the
\* FSM through the whole cycle.
C29_Witness == sm[1].state = EMPTY_RESET /\ ~Debounced(sm[1])

\* the state that follows s in the unload cycle
CycleNext ==
  [s \in CycleStates \cup {EMPTY_IDLE} |->
     CASE s = EMPTY_IDLE -> TRUCK_IN
       [] s = TRUCK_IN -> DUMP_LIFT
       [] s = DUMP_LIFT -> DUMPING_ACTIVE
       [] s = DUMPING_ACTIVE -> DUMPING_EMPTY
       [] s = DUMPING_EMPTY -> DUMP_DOWN
       [] s = DUMP_DOWN -> TRUCK_OUT
       [] s = TRUCK_OUT -> EMPTY_RESET]

\* C30: the station driven by the orchestrator's own signal mapping can go
\* through the whole unload cycle: in every state of the cycle, once the
\* debounce is over, some outputs of the two engines make the tick take the
\* edge to the state that follows, the edge out of DUMPING_EMPTY included.
C30_CycleCanFinish ==
  \A d \in Stations :
    running[d] /\ alive[d] /\ sm[d].state \in DOMAIN CycleNext /\ ~Debounced(sm[d]) =>
      \E env \in TickInputs, f \in Faults :
        LET w == _process_cycle(World(d), d, env, f, ai_enabled[d],
                                since_snap[d] > SnapInterval)
        IN WithinBounds(w, MaxSessions) /\ w.m.state = CycleNext[sm[d].state]

\* C21: once the running flag of a station is cleared, its loop starts no
\* further tick, the tick in progress runs to its end, and the thread
\* terminates.
C21_CooperativeStop ==
  /\ [][\A d \in Stations :
          ~running[d] =>
            /\ ~(~in_tick[d] /\ in_tick'[d])
            /\ in_tick[d] /\ ~in_tick'[d] =>
                 last'.dump = d /\ CallsOf(last', "cap.read") # {}]_vars
  /\ \A d \in Stations : ~running[d] ~> ~alive[d]

\* C21 witness: the flag was cleared during a tick, the tick went on to
\* update the FSM, and the thread has returned.
C21_Witness ==
  /\ ~running[1] /\ ~alive[1]
  /\ last.dump = 1
  /\ CallsOf(last, "update") # {}

\* C31: each transition record carries the true edge: its from field is the
\* state the FSM held before the change, its to field the state held after.
C31_RecordCarriesEdge ==
  [][\A d \in Stations :
       last'.dump = d =>
         \A i \in CallsOf(last', "log_state_transition") :
           last'.calls[i].arg = <<sm[d].state, sm'[d].state>>]_vars

\* C32: the plate number that finalization places in the composite metadata
\* is the one stored at the IMAGE_1 capture: while the session is open, a tick
\* after the IMAGE_1 capture does not change the stored plate number.
C32_PlateKeptAfterImage1 ==
  [][\A d \in Stations :
       /\ last'.dump = d
       /\ Truthy(session_uuid[d]) /\ session_uuid'[d] = session_uuid[d]
       /\ session_images[d]["IMAGE_1"]
       => plate_number'[d] = plate_number[d]]_vars

\* the signals of the latest call of update before any call was made
NoSignals == [front |-> <<>>, top |-> <<>>]

\* C33: a freshly constructed FSM takes the edge EMPTY_IDLE -> TRUCK_IN on its
\* first call of update with qualifying signals, however soon after
\* construction the call comes.
C33_FirstUpdateNotDebounced ==
  [][\A d \in Stations :
       /\ signals = NoSignals /\ signals' # signals
       /\ EdgeCondition(EMPTY_IDLE, TRUCK_IN, signals'.front, signals'.top)
       => sm'[d].state = TRUCK_IN]_vars

\* the number of the slot of an image type
SlotOf ==
  [t \in ImageTypes |->
     CASE t = "IMAGE_1" -> 1 [] t = "IMAGE_2" -> 2 [] t = "IMAGE_3" -> 3 [] t = "IMAGE_4" -> 4]

C36_NoStaleFrame ==
  [][worker.pc = "publish" /\ worker'.pc = "loop" => worker.frame[1] >= cap.since]_vars

\* C37: trimming discards only FRAME messages: a turn of a worker's trim loop
\* that takes a message from the output queue takes a FRAME, so every STATUS
\* message pushed reaches the consumer queue.
C37_TrimKeepsStatus ==
  [][\A ch \in Channels :
       /\ publisher[ch].pc = "trim" /\ publisher' = publisher /\ pump' = pump
       /\ Len(frame_q') < Len(frame_q)
       => Head(frame_q).kind = "FRAME"]_vars

\* the running threads of a kind on a channel (0 for the pump)
Running(kind, ch) == {t \in threads : t.kind = kind /\ t.channel = ch}

\* C38: over any sequence of start() and stop() calls at most one worker per
\* channel and at most one pump are running once the calls have taken
\* effect: threads of an earlier start() run beside those of a later one only
\* while the stop request that ends them stands.
C38_OneGenerationRuns ==
  (\/ \E ch \in Channels : Cardinality(Running("worker", ch)) > 1
   \/ Cardinality(Running("pump", 0)) > 1)
  => stop_event

\* C39: at most one run of the agent script is in progress at any time.
C39_OneAgentRun ==
  Cardinality({i \in DOMAIN jobs : jobs[i].pc = "agent"}) <= 1

====
